---- MODULE Spec2Model ----
\* A model of remoteio_client.py: RemoteServer (one TCP socket per object) and
\* RemotePin (a pin handle that formats text commands and hands them to the
\* shared socket's sendall).
EXTENDS Integers, Sequences, FiniteSets, TLC

\* ---------------------------------------------------------------- bounds
MaxCalls == 5        \* calls of the client's API (constructor and methods)

\* ---------------------------------------------------------------- inputs
Hosts == {"127.0.0.1"}
Ports == {9000}
PinNumbers == {8, -13}
Numberings == {<<"h">>}
Times == {0, 2000}

\* An optional (keyword) argument: given with a value, or left out.
Given(v) == [given |-> TRUE, val |-> v]
OmittedNumbering == [given |-> FALSE, val |-> <<>>]
OmittedTime == [given |-> FALSE, val |-> 0]
NumberingArgs == {Given(n) : n \in Numberings} \cup {OmittedNumbering}
TimeArgs == {Given(t) : t \in Times} \cup {OmittedTime}

\* What the network does during one sendall: it takes all the bytes, or the
\* peer's reset arrives when only the first `after` bytes have been written.
NoReset == [reset |-> FALSE, after |-> 0]
ResetAfter(n) == [reset |-> TRUE, after |-> n]
Nets == {NoReset, ResetAfter(3)}

\* No object (Python's None, or no value because the call raised).
None == 0

VARIABLES
    sockets,    \* every socket.socket object created so far
    servers,    \* every RemoteServer object whose construction returned
    pins,       \* every RemotePin object created so far
    ncalls,     \* the number of calls of the client's API made so far
    last,       \* the most recent call of the client's API and its outcome
    log         \* the on/blink/pulse/off calls made so far, in call order

vars == <<sockets, servers, pins, ncalls, last, log>>

\* ---------------------------------------------------------------- strings
\* A Python str is a sequence of one-character strings; bytes are a sequence
\* of integers 0..255.

DigitChars == <<"0", "1", "2", "3", "4", "5", "6", "7", "8", "9">>

RECURSIVE NatDigits(_)
NatDigits(n) ==
    IF n < 10 THEN <<DigitChars[n + 1]>>
    ELSE NatDigits(n \div 10) \o <<DigitChars[(n % 10) + 1]>>

\* str(n) of an int, as the f-string's {n} renders it.
str_int(n) == IF n < 0 THEN <<"-">> \o NatDigits(0 - n) ELSE NatDigits(n)

\* The code point of each character the commands are made of.
Ord(c) ==
    CASE c = " " -> 32 [] c = "-" -> 45
      [] c = "0" -> 48 [] c = "1" -> 49 [] c = "2" -> 50 [] c = "3" -> 51
      [] c = "4" -> 52 [] c = "5" -> 53 [] c = "6" -> 54 [] c = "7" -> 55
      [] c = "8" -> 56 [] c = "9" -> 57
      [] c = "b" -> 98 [] c = "e" -> 101 [] c = "f" -> 102 [] c = "h" -> 104
      [] c = "i" -> 105 [] c = "k" -> 107 [] c = "l" -> 108 [] c = "n" -> 110
      [] c = "o" -> 111 [] c = "p" -> 112 [] c = "s" -> 115 [] c = "u" -> 117

\* str.encode(): UTF-8, one byte per ASCII character.
encode(s) == [i \in 1..Len(s) |-> Ord(s[i])]

\* ---------------------------------------------------------------- socket
\* socket.socket(AF_INET, SOCK_STREAM): open, not connected, nothing written.
\*   closed        the socket object was closed by close()
\*   peer          "none" never connected, "up" established, "down" reset/broken
\*   written       the bytes written to the stream so far
\*   sendall_calls the argument of every sendall() call made on the socket
socket_socket ==
    [closed |-> FALSE, peer |-> "none", written |-> <<>>, sendall_calls |-> <<>>]

\* sock.connect(addr): establishes the stream, or raises OSError.
connect(sock, reachable) ==
    IF reachable
    THEN [sock |-> [sock EXCEPT !.peer = "up"], raised |-> FALSE]
    ELSE [sock |-> sock, raised |-> TRUE]

\* sock.sendall(data): writes all of data and returns, or raises OSError: at
\* once when the socket is closed or the stream is not (or no longer)
\* established, or after writing part of data when the peer's reset arrives
\* during the call.
sendall(sock, data, net) ==
    LET called == [sock EXCEPT !.sendall_calls = Append(@, data)]
    IN  IF sock.closed \/ sock.peer # "up"
        THEN [sock |-> called, raised |-> TRUE]
        ELSE IF net.reset /\ net.after < Len(data)
        THEN [sock |-> [called EXCEPT !.written = @ \o SubSeq(data, 1, net.after),
                                      !.peer = "down"],
              raised |-> TRUE]
        ELSE [sock |-> [called EXCEPT !.written = @ \o data], raised |-> FALSE]

\* sock.close(): marks the socket closed; closing again is a no-op.
socket_close(sock) == [sock EXCEPT !.closed = TRUE]

\* ---------------------------------------------------------------- RemoteServer
\* Faulty variant: the constructor swallows the connect error and returns the
\* object with its unconnected socket.
RemoteServer_init_swallows(server_ip, server_port, reachable) ==
    LET c == connect(socket_socket, reachable)
    IN  [sock   |-> c.sock,
         raised |-> FALSE,
         self   |-> [server_ip |-> server_ip, server_port |-> server_port,
                     client_socket |-> Len(sockets) + 1]]

\* RemoteServer.__init__: stores the address, creates the socket and connects
\* it. A failing connect raises out of the constructor, so the caller gets no
\* object. The new socket takes the next index of sockets.
RemoteServer_init(server_ip, server_port, reachable) ==
    LET c == connect(socket_socket, reachable)
    IN  [sock   |-> c.sock,
         raised |-> c.raised,
         self   |-> [server_ip |-> server_ip, server_port |-> server_port,
                     client_socket |-> Len(sockets) + 1]]

\* RemotePin.__init__
RemotePin_init(client_socket, pin_number, numbering) ==
    [client_socket |-> client_socket, pin_number |-> pin_number,
     numbering |-> numbering, time_ms |-> 0]

\* Faulty variant: pin() drops its numbering argument and always passes 'b'.
RemoteServer_pin_drops_numbering(self, pin_number, numbering) ==
    RemotePin_init(self.client_socket, pin_number, <<"b">>)

\* RemoteServer.pin(pin_number, numbering='b')
RemoteServer_pin(self, pin_number, numbering) ==
    RemotePin_init(self.client_socket, pin_number,
                   IF numbering.given THEN numbering.val ELSE <<"b">>)

\* Faulty variant: close() leaves the socket open.
RemoteServer_close_noop(self) == sockets

\* RemoteServer.close(): closes the object's socket.
RemoteServer_close(self) ==
    [sockets EXCEPT ![self.client_socket] = socket_close(@)]

\* ---------------------------------------------------------------- RemotePin
\* The default of __create_command's time_ms parameter.
CreateCommandDefaultTime == 0
\* The default of on's time_ms parameter.
OnDefaultTime == 0

\* Faulty variant: the time is appended only when it is not 0.
create_command_time_optional(command, time_ms) ==
    IF time_ms = 0 THEN command ELSE command \o <<" ">> \o str_int(time_ms)

\* RemotePin.__create_command: f"{command} {time_ms}"
create_command(command, time_ms) == command \o <<" ">> \o str_int(time_ms)

\* Faulty variant: pin number and numbering are formatted in the wrong order.
send_command_swapped(self, command, net) ==
    LET text == str_int(self.pin_number) \o <<" ">> \o self.numbering
                    \o <<" ">> \o command
        r == sendall(sockets[self.client_socket], encode(text), net)
    IN  [sockets |-> [sockets EXCEPT ![self.client_socket] = r.sock],
         raised  |-> r.raised]

\* Faulty variant: every command is terminated by a newline (byte 10).
send_command_newline(self, command, net) ==
    LET text == self.numbering \o <<" ">> \o str_int(self.pin_number)
                    \o <<" ">> \o command
        r == sendall(sockets[self.client_socket], encode(text) \o <<10>>, net)
    IN  [sockets |-> [sockets EXCEPT ![self.client_socket] = r.sock],
         raised  |-> r.raised]

\* Faulty variant: a failed sendall is retried once.
send_command_retries(self, command, net) ==
    LET text == self.numbering \o <<" ">> \o str_int(self.pin_number)
                    \o <<" ">> \o command
        r1 == sendall(sockets[self.client_socket], encode(text), net)
        r == IF r1.raised THEN sendall(r1.sock, encode(text), NoReset) ELSE r1
    IN  [sockets |-> [sockets EXCEPT ![self.client_socket] = r.sock],
         raised  |-> r.raised]

\* Faulty variant: when sendall fails, a fresh connection is made on the
\* socket and the command is sent again.
send_command_reconnects(self, command, net) ==
    LET text == self.numbering \o <<" ">> \o str_int(self.pin_number)
                    \o <<" ">> \o command
        r1 == sendall(sockets[self.client_socket], encode(text), net)
        r == IF r1.raised
             THEN sendall([r1.sock EXCEPT !.closed = FALSE, !.peer = "up"],
                          encode(text), NoReset)
             ELSE r1
    IN  [sockets |-> [sockets EXCEPT ![self.client_socket] = r.sock],
         raised  |-> r.raised]

\* RemotePin.__send_command: f"{self.numbering} {self.pin_number} {command}",
\* encoded and handed to one sendall on the handle's socket. An OSError of
\* sendall is not caught.
send_command(self, command, net) ==
    LET text == self.numbering \o <<" ">> \o str_int(self.pin_number)
                    \o <<" ">> \o command
        r == sendall(sockets[self.client_socket], encode(text), net)
    IN  [sockets |-> [sockets EXCEPT ![self.client_socket] = r.sock],
         raised  |-> r.raised]

\* Faulty variant: on(t) stores t in the handle's time_ms, and on() without
\* an argument sends the stored value.
on_stored_time(h, time_ms, net) ==
    LET t == IF time_ms.given THEN time_ms.val ELSE pins[h].time_ms
        r == send_command(pins[h], create_command(<<"o", "n">>, t), net)
    IN  [pins |-> [pins EXCEPT ![h].time_ms = t], sockets |-> r.sockets,
         raised |-> r.raised, ret |-> IF r.raised THEN None ELSE h]

\* The outcome of an action method called on handle h while the network does
\* net: the objects after the call, whether it raised, the value returned.
\* RemotePin.on(time_ms=0)
on(h, time_ms, net) ==
    LET t == IF time_ms.given THEN time_ms.val ELSE OnDefaultTime
        r == send_command(pins[h], create_command(<<"o", "n">>, t), net)
    IN  [pins |-> pins, sockets |-> r.sockets, raised |-> r.raised,
         ret |-> IF r.raised THEN None ELSE h]

\* RemotePin.blink()
blink(h, net) ==
    LET cmd == create_command(<<"b", "l", "i", "n", "k">>, CreateCommandDefaultTime)
        r == send_command(pins[h], cmd, net)
    IN  [pins |-> pins, sockets |-> r.sockets, raised |-> r.raised,
         ret |-> IF r.raised THEN None ELSE h]

\* Faulty variant: pulse() lacks its return statement.
pulse_returns_nothing(h, net) ==
    LET cmd == create_command(<<"p", "u", "l", "s", "e">>, CreateCommandDefaultTime)
        r == send_command(pins[h], cmd, net)
    IN  [pins |-> pins, sockets |-> r.sockets, raised |-> r.raised, ret |-> None]

\* RemotePin.pulse()
pulse(h, net) ==
    LET cmd == create_command(<<"p", "u", "l", "s", "e">>, CreateCommandDefaultTime)
        r == send_command(pins[h], cmd, net)
    IN  [pins |-> pins, sockets |-> r.sockets, raised |-> r.raised,
         ret |-> IF r.raised THEN None ELSE h]

\* RemotePin.off()
off(h, net) ==
    LET cmd == create_command(<<"o", "f", "f">>, CreateCommandDefaultTime)
        r == send_command(pins[h], cmd, net)
    IN  [pins |-> pins, sockets |-> r.sockets, raised |-> r.raised,
         ret |-> IF r.raised THEN None ELSE h]

\* ---------------------------------------------------------------- calls
Call(op, target, pin_number, numbering, time_ms, raised, ret) ==
    [op |-> op, target |-> target, pin_number |-> pin_number,
     numbering |-> numbering, time_ms |-> time_ms, raised |-> raised, ret |-> ret]

Init ==
    /\ sockets = <<>>
    /\ servers = <<>>
    /\ pins = <<>>
    /\ ncalls = 0
    /\ last = Call("none", None, 0, OmittedNumbering, OmittedTime, FALSE, None)
    /\ log = <<>>

\* One more call of the API is made.
Called ==
    /\ ncalls < MaxCalls
    /\ ncalls' = ncalls + 1

\* remote_server = RemoteServer(server_ip, server_port)
Open(server_ip, server_port, reachable) ==
    /\ Called
    /\ LET r == RemoteServer_init(server_ip, server_port, reachable)
       IN  /\ sockets' = Append(sockets, r.sock)
           /\ servers' = IF r.raised THEN servers ELSE Append(servers, r.self)
           /\ last' = Call("open", Len(sockets) + 1, 0, OmittedNumbering, OmittedTime,
                           r.raised, IF r.raised THEN None ELSE Len(servers) + 1)
    /\ UNCHANGED <<pins, log>>

\* remote_pin = remote_server.pin(pin_number[, numbering])
Pin(srv, pin_number, numbering) ==
    /\ Called
    /\ pins' = Append(pins, RemoteServer_pin(servers[srv], pin_number, numbering))
    /\ last' = Call("pin", srv, pin_number, numbering, OmittedTime, FALSE, Len(pins) + 1)
    /\ UNCHANGED <<sockets, servers, log>>

\* remote_server.close()
Close(srv) ==
    /\ Called
    /\ sockets' = RemoteServer_close(servers[srv])
    /\ last' = Call("close", srv, 0, OmittedNumbering, OmittedTime, FALSE, None)
    /\ UNCHANGED <<servers, pins, log>>

\* The state after an action method named op, called on handle h with time
\* argument time_ms, had outcome r.
Acted(op, h, time_ms, r) ==
    /\ Called
    /\ pins' = r.pins
    /\ sockets' = r.sockets
    /\ last' = Call(op, h, 0, OmittedNumbering, time_ms, r.raised, r.ret)
    /\ log' = Append(log, [self |-> h, action |-> op, time_ms |-> time_ms,
                           raised |-> r.raised])
    /\ UNCHANGED servers

\* remote_pin.on([time_ms])
On(h, time_ms, net) == Acted("on", h, time_ms, on(h, time_ms, net))

\* remote_pin.blink()
Blink(h, net) == Acted("blink", h, OmittedTime, blink(h, net))

\* remote_pin.pulse()
Pulse(h, net) == Acted("pulse", h, OmittedTime, pulse(h, net))

\* remote_pin.off()
Off(h, net) == Acted("off", h, OmittedTime, off(h, net))

\* The environment: the server resets the connection or the network drops it
\* while no call is in progress.
PeerReset(s) ==
    /\ ~sockets[s].closed
    /\ sockets[s].peer = "up"
    /\ sockets' = [sockets EXCEPT ![s].peer = "down"]
    /\ UNCHANGED <<servers, pins, ncalls, last, log>>

Next ==
    \/ \E ip \in Hosts, port \in Ports, reachable \in BOOLEAN : Open(ip, port, reachable)
    \/ \E srv \in 1..Len(servers), n \in PinNumbers, nb \in NumberingArgs : Pin(srv, n, nb)
    \/ \E srv \in 1..Len(servers) : Close(srv)
    \/ \E h \in 1..Len(pins), t \in TimeArgs, net \in Nets : On(h, t, net)
    \/ \E h \in 1..Len(pins), net \in Nets : Blink(h, net)
    \/ \E h \in 1..Len(pins), net \in Nets : Pulse(h, net)
    \/ \E h \in 1..Len(pins), net \in Nets : Off(h, net)
    \/ \E s \in 1..Len(sockets) : PeerReset(s)

Spec == Init /\ [][Next]_vars

\* ================================================================ properties
ActionOps == {"on", "blink", "pulse", "off"}

ActionText(op) ==
    CASE op = "on" -> <<"o", "n">>
      [] op = "blink" -> <<"b", "l", "i", "n", "k">>
      [] op = "pulse" -> <<"p", "u", "l", "s", "e">>
      [] op = "off" -> <<"o", "f", "f">>

\* The time an action call is to transmit: on's argument, 0 when left out or
\* when the action is not on.
TimeOf(op, time_ms) == IF op = "on" /\ time_ms.given THEN time_ms.val ELSE 0

\* "<numbering> <pin_number> <action> <time_ms>" as bytes.
WireCommand(pin, op, time_ms) ==
    encode(pin.numbering \o <<" ">> \o str_int(pin.pin_number) \o <<" ">>
           \o ActionText(op) \o <<" ">> \o str_int(TimeOf(op, time_ms)))

\* bytes split at every space (byte 32), as bytes.split(b" ") does.
RECURSIVE Fields(_)
Fields(b) ==
    IF \A i \in 1..Len(b) : b[i] # 32 THEN <<b>>
    ELSE LET k == CHOOSE i \in 1..Len(b) : b[i] = 32 /\ \A j \in 1..(i - 1) : b[j] # 32
         IN  <<SubSeq(b, 1, k - 1)>> \o Fields(SubSeq(b, k + 1, Len(b)))

\* The last call was an action method.
LastActed == last.op \in ActionOps
\* The handle and the socket of the last action call, and the bytes that
\* call handed to sendall.
LastPin == pins[last.target]
LastSock == sockets[LastPin.client_socket]
LastData == LastSock.sendall_calls[Len(LastSock.sendall_calls)]

\* This step is one call of the API, of an operation in ops.
StepOf(ops) == ncalls' = ncalls + 1 /\ last'.op \in ops

Connected(sock) == ~sock.closed /\ sock.peer = "up"

\* ---------------------------------------------------------------- C1
\* C1: whatever action was called last, on whatever handle, the bytes handed
\* to the socket's sendall are exactly "<numbering> <pin_number> <action>
\* <time_ms>" with single spaces and no terminator, the time being 0 for
\* blink, pulse and off, and on's argument (0 when left out) for on.
C1_WireFormat ==
    LastActed =>
        /\ LastSock.sendall_calls # <<>>
        /\ LastData = WireCommand(LastPin, last.op, last.time_ms)

\* pin(8) then on(2000) on an open connection hands b"b 8 on 2000" to sendall.
C1_Witness ==
    /\ last.op = "on" /\ ~last.raised
    /\ LastData = <<98, 32, 56, 32, 111, 110, 32, 50, 48, 48, 48>>

\* ---------------------------------------------------------------- C2
\* C2 as stated: every command sent by blink(), pulse() or off() consists of
\* exactly three space-separated fields and carries no time component.
C2_ThreeFields ==
    (LastActed /\ last.op # "on") => Len(Fields(LastData)) = 3

\* C2 as amended: every command sent by blink(), pulse() or off() consists of
\* exactly four space-separated fields, numbering, pin number, action and a
\* time component, and the time component is always 0.
C2_FourFieldsTimeZero ==
    (LastActed /\ last.op # "on") =>
        LET f == Fields(LastData)
        IN  /\ Len(f) = 4
            /\ f[1] = encode(LastPin.numbering)
            /\ f[2] = encode(str_int(LastPin.pin_number))
            /\ f[3] = encode(ActionText(last.op))
            /\ f[4] = <<48>>

\* pin(-13, 'h') then blink() sends b"h -13 blink 0".
C2_Witness ==
    /\ last.op = "blink" /\ ~last.raised
    /\ LastData = <<104, 32, 45, 49, 51, 32, 98, 108, 105, 110, 107, 32, 48>>

\* ---------------------------------------------------------------- C3
\* C3: close() closes the connection's socket, and from then on every action
\* called on a handle of that connection raises, writes no bytes to the
\* stream and returns no handle.
C3_ClosedSendFails ==
    [][/\ StepOf({"close"}) => sockets'[servers[last'.target].client_socket].closed
       /\ StepOf(ActionOps) =>
            LET s == pins[last'.target].client_socket
            IN  sockets[s].closed =>
                    /\ last'.raised
                    /\ last'.ret = None
                    /\ sockets'[s].written = sockets[s].written]_vars

\* An action succeeded, the connection was closed, and the next action on the
\* same handle raised although the peer is still up.
C3_Witness ==
    /\ LastActed /\ last.raised /\ last.ret = None
    /\ LastSock.closed /\ LastSock.peer = "up"
    /\ Len(log) >= 2 /\ ~log[Len(log) - 1].raised
    /\ log[Len(log) - 1].self = last.target
    /\ LastSock.written # <<>>

\* ---------------------------------------------------------------- C4
\* C4: a construction whose connect fails raises and yields no object: no
\* RemoteServer and no pin handle refers to its socket, and nothing is ever
\* handed to or written by that socket.
C4_FailedConnectNoObject ==
    /\ \A s \in 1..Len(sockets) :
          sockets[s].peer = "none" =>
              /\ \A i \in 1..Len(servers) : servers[i].client_socket # s
              /\ \A h \in 1..Len(pins) : pins[h].client_socket # s
              /\ sockets[s].sendall_calls = <<>>
              /\ sockets[s].written = <<>>
    /\ last.op = "open" =>
          /\ last.raised <=> sockets[last.target].peer = "none"
          /\ last.raised <=> last.ret = None

\* The first construction failed to connect; a second one connected and a
\* command was sent through it.
C4_Witness ==
    /\ Len(sockets) = 2
    /\ sockets[1].peer = "none" /\ sockets[1].sendall_calls = <<>>
    /\ sockets[2].written # <<>>

\* ---------------------------------------------------------------- C5
\* C5: every successful action call returns the handle it was called on, and
\* no action call changes any field of any handle.
C5_ChainingKeepsIdentity ==
    [][StepOf(ActionOps) =>
          /\ ~last'.raised => last'.ret = last'.target
          /\ pins' = pins]_vars

\* Three chained successful actions on one handle, each returning it, the
\* last still encoding the handle's pair.
C5_Witness ==
    /\ Len(log) >= 3
    /\ \A i \in 1..Len(log) : log[i].self = last.target /\ ~log[i].raised
    /\ LastActed /\ last.ret = last.target
    /\ Fields(LastData)[1] = encode(LastPin.numbering)
    /\ Fields(LastData)[2] = encode(str_int(LastPin.pin_number))

RECURSIVE CommandsOf(_, _)
CommandsOf(l, s) ==
    IF l = <<>> THEN <<>>
    ELSE LET e == Head(l)
         IN  (IF pins[e.self].client_socket = s /\ ~e.raised
              THEN WireCommand(pins[e.self], e.action, e.time_ms)
              ELSE <<>>) \o CommandsOf(Tail(l), s)

\* The calls of l made on handles of socket s.
CallsOn(l, s) == SelectSeq(l, LAMBDA e : pins[e.self].client_socket = s)

\* C7: as long as every action call on a connection's handles succeeded, the
\* bytes written to its stream are exactly the wire commands of those calls,
\* concatenated in call order with nothing between them; and every action
\* call makes exactly one sendall call.
C7_StreamIsConcatenation ==
    \A s \in 1..Len(sockets) :
        /\ (\A i \in 1..Len(log) :
               pins[log[i].self].client_socket = s => ~log[i].raised)
              => sockets[s].written = CommandsOf(log, s)
        /\ Len(sockets[s].sendall_calls) = Len(CallsOn(log, s))

\* Two handles of one connection: on(2000) on pin 8 and off() on pin -13
\* numbered 'h' leave b"b 8 on 2000h -13 off 0" on the shared stream.
C7_Witness ==
    /\ Len(log) = 2 /\ log[1].self # log[2].self
    /\ pins[log[1].self].client_socket = pins[log[2].self].client_socket
    /\ LastSock.written =
          <<98, 32, 56, 32, 111, 110, 32, 50, 48, 48, 48>>
          \o <<104, 32, 45, 49, 51, 32, 111, 102, 102, 32, 48>>

\* ---------------------------------------------------------------- C8
\* C8: an action call makes exactly one sendall call, of its own command; when
\* that raises, the action raises and returns nothing, no handle and no
\* RemoteServer changes, the socket is not closed and not connected again,
\* the stream got at most a part of that one command, and no other socket
\* changes.
C8_FailedSendPropagates ==
    [][StepOf(ActionOps) =>
          LET h == last'.target
              s == pins[h].client_socket
              before == sockets[s]
              after == sockets'[s]
          IN  /\ after.sendall_calls =
                    Append(before.sendall_calls,
                           WireCommand(pins[h], last'.op, last'.time_ms))
              /\ last'.raised =>
                    /\ last'.ret = None
                    /\ pins' = pins
                    /\ servers' = servers
                    /\ after.closed = before.closed
                    /\ ~Connected(after)
                    /\ \E n \in 0..(Len(after.sendall_calls[Len(after.sendall_calls)]) - 1) :
                          after.written = before.written
                              \o SubSeq(after.sendall_calls[Len(after.sendall_calls)], 1, n)
                    /\ \A o \in 1..Len(sockets) : o # s => sockets'[o] = sockets[o]
                    /\ Len(sockets') = Len(sockets)]_vars

\* After the peer reset the connection, two actions in a row on the same
\* handle both raised, each having attempted its own command once.
C8_Witness ==
    /\ Len(log) >= 2
    /\ log[Len(log)].raised /\ log[Len(log) - 1].raised
    /\ log[Len(log)].self = log[Len(log) - 1].self
    /\ log[Len(log)].action # log[Len(log) - 1].action
    /\ LastActed /\ ~LastSock.closed /\ LastSock.peer = "down"
    /\ Len(LastSock.sendall_calls) = Len(CallsOn(log, LastPin.client_socket))

\* ---------------------------------------------------------------- C9
\* C9: pin() never raises, whatever its arguments and whether or not the
\* connection is closed; it changes no socket, no RemoteServer and no earlier
\* handle, and returns a new handle holding the given pin_number, the given
\* numbering ('b' when left out), the connection's socket and time_ms 0.
C9_PinIsPureConstruction ==
    [][StepOf({"pin"}) =>
          /\ ~last'.raised
          /\ sockets' = sockets
          /\ servers' = servers
          /\ Len(pins') = Len(pins) + 1
          /\ \A h \in 1..Len(pins) : pins'[h] = pins[h]
          /\ last'.ret = Len(pins')
          /\ pins'[last'.ret] =
                [client_socket |-> servers[last'.target].client_socket,
                 pin_number |-> last'.pin_number,
                 numbering |-> IF last'.numbering.given THEN last'.numbering.val
                               ELSE <<"b">>,
                 time_ms |-> 0]]_vars

\* pin(8) with the numbering left out, called after close(), returned a
\* handle numbered 'b' on the closed socket.
C9_Witness ==
    /\ last.op = "pin" /\ ~last.numbering.given /\ ~last.raised
    /\ sockets[servers[last.target].client_socket].closed
    /\ pins[last.ret].numbering = <<"b">> /\ pins[last.ret].pin_number = 8
    /\ pins[last.ret].client_socket = servers[last.target].client_socket

====
